---- MODULE Spec2Model ----
(***************************************************************************)
(* Technical-indicator and signal-classification engine of QuantCrew      *)
(* (src/tools/tech_analysis.py): TechAnalyst and TechAnalystTool._run.     *)
(*                                                                         *)
(* Numbers.  Prices are integers counted in ticks of 1/10000 of a         *)
(* currency unit, so round(x, 2) is rounding to a multiple of 100 ticks    *)
(* and round(x, 4) keeps a tick value.  Closes of the input series are     *)
(* multiples of Unit = 200 ticks, which makes the 20-, 50- and 200-bar     *)
(* simple means exact integers.  RSI is counted in RSI points.             *)
(*                                                                         *)
(* Frames.  A pandas DataFrame is modelled by what the code reads of it:   *)
(* its column names, the original positions of its rows (index), the whole *)
(* Close column, and the last row (.iloc[-1]) of the indicator columns.    *)
(* The values of the `ta` indicators that are not plain means or sums      *)
(* (RSI, MACD difference, Bollinger width, rolling volatility) are outputs *)
(* of library arithmetic on floats; they are drawn from LibOutputs, while  *)
(* their NaN warm-up pattern is modelled exactly (FirstValid).  A call     *)
(* into the library may also raise; whether it does is part of LibOutputs. *)
(***************************************************************************)
EXTENDS Integers, Sequences, FiniteSets, TLC

\* ------------------------------------------------------------------ bounds
MaxBars == 201
NumRuns == 2
MaxCalls == 3

\* ------------------------------------------------------ program constants
SmaLong == 200
SmaMid == 50
SmaShort == 20
MacdSlow == 26
MacdSign == 9
MacdAltSlow == 20
BollWindow == 20
RsiWindow == 14
VolWindow == 20
MomentumLag == 20
PeakDistance == 20
LevelsKept == 3

\* one close step of the generated series, in ticks
Unit == 200
\* ticks in one hundredth of a currency unit
Cent == 100

\* ------------------------------------------------------------ input series
Shapes == {"flat", "up", "down", "saw", "swing", "ragged", "vee", "cap"}
Flaws == {"none", "dup_date", "unordered_date", "neg_close", "zero_close", "neg_volume"}

Abs(x) == IF x < 0 THEN -x ELSE x

\* close of bar i (1-based) of an n-bar series, in multiples of Unit; a
\* ragged series is a swing series whose closes are not whole hundredths
Level(shape, n, i) ==
    CASE shape = "flat" -> 300
      [] shape = "up"   -> 100 + i
      [] shape = "down" -> 500 - i
      [] shape = "saw"  -> 300 + (5 - Abs((i % 10) - 5)) + (IF i % 20 = 5 THEN 2 ELSE 0)
      [] shape \in {"swing", "ragged"} -> 300 + (5 - Abs((i % 10) - 5))
                            + (IF i % 20 = 5 THEN 2 ELSE 0)
                            + (IF i % 10 = 5 THEN i \div 20 ELSE 0)
      [] shape = "vee"  -> IF i + 10 > n THEN 600 ELSE 500 - i
      [] shape = "cap"  -> IF i + 10 > n THEN 50 ELSE 100 + i

\* the part of every close of the series below one hundredth, in ticks
Fraction(shape) == IF shape = "ragged" THEN 37 ELSE 0

\* the bar the flaw of a series sits on
FlawAt(n) == (n \div 2) + 1

Bar(shape, flaw, n, i) ==
    [Date   |-> CASE flaw = "dup_date" /\ i = FlawAt(n) /\ i > 1 -> i - 1
                  [] flaw = "unordered_date" /\ i = FlawAt(n) /\ i > 1 -> i - 1
                  [] flaw = "unordered_date" /\ i = FlawAt(n) - 1 /\ i >= 1 -> i + 1
                  [] OTHER -> i,
     Close  |-> CASE flaw = "neg_close" /\ i = FlawAt(n) -> -(Unit * 5)
                  [] flaw = "zero_close" /\ i = n - 1 -> 0
                  [] OTHER -> Unit * Level(shape, n, i) + Fraction(shape),
     Volume |-> IF flaw = "neg_volume" /\ i = FlawAt(n)
                THEN -1000 ELSE 1000 + 10 * (i % 3)]

Series(shape, flaw, n) == [i \in 1..n |-> Bar(shape, flaw, n, i)]

\* the series the market-data supplier may return to a run of the tool:
\* every length up to MaxBars, every shape, every flaw
Histories ==
    {Series("up", "none", n) : n \in 0..MaxBars}
    \cup {Series(s, "none", n) : s \in Shapes, n \in {10, 20, 30, 40, 60, MaxBars}}
    \cup {Series("up", f, n) : f \in Flaws, n \in {60, MaxBars}}
    \cup {Series(s, "none", SmaLong - 1) : s \in {"saw", "swing", "ragged"}}
    \cup {Series("up", "zero_close", MacdSlow + MacdSign)}

\* the lengths on either side of each window of the pipeline
EdgeLengths ==
    {0, 10, RsiWindow - 1, RsiWindow, SmaShort - 1, SmaShort, MacdSlow - 1, MacdSlow,
     MacdSlow + MacdSign - 2, MacdSlow + MacdSign - 1, SmaMid - 1, SmaMid,
     SmaLong - 1, SmaLong, MaxBars}

\* the series the supplier may return to a client's analyst
ClientHistories ==
    {Series("up", "none", n) : n \in EdgeLengths}
    \cup {Series(s, "none", MaxBars) : s \in Shapes}

\* --------------------------------------------------------------- the frame
\* TechAnalyst.__init__: self.df = None
NoFrame == [tag |-> "None"]

\* columns of the supplier's history that the code reads
BaseColumns == {"Close", "Volume"}

\* the columns fetch_and_process_data adds to a history of n rows
AddedColumns(n, base) ==
    (IF n >= SmaLong THEN {"trend_sma_200"} ELSE {})
    \cup (IF n >= SmaMid THEN {"trend_sma_50"} ELSE {})
    \cup (IF n >= SmaShort THEN {"trend_sma_20"} ELSE {})
    \cup (IF n >= MacdSlow
          THEN {"trend_macd", "trend_macd_signal", "trend_macd_diff"} ELSE {})
    \cup (IF n >= MacdAltSlow
          THEN {"trend_macd_20", "trend_macd_signal_20", "trend_macd_diff_20"} ELSE {})
    \cup (IF n >= BollWindow
          THEN {"volatility_bbhi", "volatility_bbh", "volatility_bbl", "volatility_bbm"}
          ELSE {})
    \cup (IF n >= RsiWindow THEN {"momentum_rsi"} ELSE {})
    \cup (IF "Volume" \in base THEN {"volume_obv"} ELSE {})
    \cup {"volatility", "momentum"}

\* first row (1-based) at which the library leaves a value other than NaN
FirstValid(c) ==
    CASE c = "trend_sma_200" -> SmaLong
      [] c = "trend_sma_50" -> SmaMid
      [] c = "trend_sma_20" -> SmaShort
      [] c = "trend_macd" -> MacdSlow
      [] c \in {"trend_macd_signal", "trend_macd_diff"} -> MacdSlow + MacdSign - 1
      [] c = "trend_macd_20" -> MacdAltSlow
      [] c \in {"trend_macd_signal_20", "trend_macd_diff_20"} -> MacdAltSlow + MacdSign - 1
      [] c \in {"volatility_bbh", "volatility_bbl", "volatility_bbm"} -> BollWindow
      [] c = "momentum_rsi" -> RsiWindow
      [] c = "volatility" -> VolWindow + 1
      [] c = "momentum" -> MomentumLag + 1
      [] OTHER -> 1

\* the rows whose close is zero: Close.pct_change() of the row after such a
\* row divides by zero and is inf or NaN, not a finite number
ZeroCloses(h) == { j \in 1..Len(h) : h[j].Close = 0 }

\* is the cell of column c at row i of the frame computed from n rows NaN,
\* zeros being the rows with a zero close; rolling(VolWindow).std() is NaN
\* unless all VolWindow changes of its window are finite
IsNaN(c, i, n, zeros) ==
    IF c \in {"volatility", "momentum"} /\ n < VolWindow
    THEN TRUE
    ELSE \/ i < FirstValid(c)
         \/ /\ c = "volatility"
            /\ \E z \in zeros : i - VolWindow <= z /\ z < i

\* DataFrame.dropna(): the positions of the rows without a NaN cell, in order
DropNa(h, columns) ==
    LET zeros == ZeroCloses(h)
    IN  SelectSeq([i \in 1..Len(h) |-> i],
                  LAMBDA i : \A c \in columns : ~IsNaN(c, i, Len(h), zeros))

\* sum of the closes of rows from..to (by halves, to keep the recursion flat)
RECURSIVE SumClose(_, _, _)
SumClose(h, from, to) ==
    IF from > to THEN 0
    ELSE IF from = to THEN h[from].Close
    ELSE LET mid == (from + to) \div 2
         IN  SumClose(h, from, mid) + SumClose(h, mid + 1, to)

\* SMAIndicator(close, window).sma_indicator() at row p >= window
Sma(h, window, p) == SumClose(h, p - window + 1, p) \div window

\* the volume of row i, negated when the close fell from the row before
SignedVolume(h, i) ==
    IF i > 1 /\ h[i].Close < h[i - 1].Close THEN -(h[i].Volume) ELSE h[i].Volume

\* OnBalanceVolumeIndicator(close, volume).on_balance_volume() at row `to`:
\* the cumulative sum of the signed volumes (summed by halves)
RECURSIVE Obv(_, _, _)
Obv(h, from, to) ==
    IF from > to THEN 0
    ELSE IF from = to THEN SignedVolume(h, from)
    ELSE LET mid == (from + to) \div 2
         IN  Obv(h, from, mid) + Obv(h, mid + 1, to)

\* last-row outputs of the library's float arithmetic:
\* RSI(14), MACD(12,26,9) difference, MACD(10,20,9) difference,
\* two standard deviations of the 20-bar window, annualised volatility
\* the last entry: a call into the library raises an exception
LibTable ==
    << [raises |-> FALSE,
        rsi |-> 25, macd_diff |-> 50, macd_diff_20 |-> 40, dev |-> 0, vol |-> 0],
       [raises |-> FALSE,
        rsi |-> 50, macd_diff |-> 0, macd_diff_20 |-> -10, dev |-> 4 * Unit, vol |-> 2500],
       [raises |-> FALSE,
        rsi |-> 75, macd_diff |-> -50, macd_diff_20 |-> -40, dev |-> 1, vol |-> 9000],
       [raises |-> TRUE,
        rsi |-> 0, macd_diff |-> 0, macd_diff_20 |-> 0, dev |-> 0, vol |-> 0] >>

LibOutputs == { LibTable[k] : k \in 1..Len(LibTable) }

\* The library is deterministic: its outputs are a function of the series.
\* Libraries is a sample of such functions; the k-th one maps the series h
\* to LibraryOutput(k, h), and every series gets every entry of the table
\* under one of them.
Libraries == 1..Len(LibTable)
LibraryOutput(k, h) == LibTable[((k + Len(h)) % Len(LibTable)) + 1]

\* the columns of which the code reads .iloc[-1]
ReadColumns ==
    {"Close", "trend_sma_20", "trend_sma_50", "trend_sma_200", "momentum_rsi",
     "trend_macd_diff", "trend_macd_diff_20", "volume_obv", "volatility_bbh",
     "volatility_bbl", "volatility_bbm", "volatility", "momentum"}

\* .iloc[-1] of the columns the code reads, taken at row p of the history
LastRow(h, columns, p, lib) ==
    [c \in columns \cap ReadColumns |->
        CASE c = "Close" -> h[p].Close
          [] c = "trend_sma_20" -> Sma(h, SmaShort, p)
          [] c = "trend_sma_50" -> Sma(h, SmaMid, p)
          [] c = "trend_sma_200" -> Sma(h, SmaLong, p)
          [] c = "momentum_rsi" -> lib.rsi
          [] c = "trend_macd_diff" -> lib.macd_diff
          [] c = "trend_macd_diff_20" -> lib.macd_diff_20
          [] c = "volume_obv" -> Obv(h, 1, p)
          [] c = "volatility_bbm" -> Sma(h, BollWindow, p)
          [] c = "volatility_bbh" -> Sma(h, BollWindow, p) + lib.dev
          [] c = "volatility_bbl" -> Sma(h, BollWindow, p) - lib.dev
          [] c = "volatility" -> lib.vol
          [] c = "momentum" -> h[p].Close - h[p - MomentumLag].Close]

\* a frame: columns, positions of the kept rows, Close column, last row
Frame(h, columns, index, lib) ==
    [tag |-> "DataFrame",
     columns |-> columns,
     index |-> index,
     Close |-> [k \in 1..Len(index) |-> h[index[k]].Close],
     last |-> IF Len(index) = 0 THEN [c \in {} |-> 0]
              ELSE LastRow(h, columns, index[Len(index)], lib)]

IsEmpty(df) == Len(df.index) = 0

\* the test of line 86 left out: an empty history is processed like any other
fetch_and_process_data_no_empty_check(h, lib) ==
    IF Len(h) > 0 /\ lib.raises
    THEN [raised |-> "ValueError", msg |-> "Error processing data: library error"]
    ELSE LET columns == BaseColumns \cup AddedColumns(Len(h), BaseColumns)
         IN  [raised |-> "no",
              df |-> Frame(h, columns, DropNa(h, columns), lib)]

\* TechAnalyst.fetch_and_process_data on the history h the supplier returned:
\* the frame assigned to self.df, or the ValueError raised (lines 129-131 wrap
\* every exception of the computation, the test of line 86 included)
fetch_and_process_data(h, lib) ==
    IF Len(h) = 0
    THEN [raised |-> "ValueError", msg |-> "Error processing data: No data found"]
    ELSE IF lib.raises
    THEN [raised |-> "ValueError", msg |-> "Error processing data: library error"]
    ELSE LET columns == BaseColumns \cup AddedColumns(Len(h), BaseColumns)
         IN  [raised |-> "no",
              df |-> Frame(h, columns, DropNa(h, columns), lib)]

\* ------------------------------------------------------- extremum detection
\* the last position of the run of equal values that starts at i
PlateauEnd(x, i) ==
    CHOOSE j \in i..Len(x) :
        /\ \A k \in i..j : x[k] = x[i]
        /\ j = Len(x) \/ x[j + 1] # x[i]

\* scipy _local_maxima_1d: a strict rise into a plateau and a strict fall
\* after it; the peak is the middle of the plateau (rounded down)
LocalMaxima(x) ==
    { (i + PlateauEnd(x, i)) \div 2 :
        i \in { k \in 2..(Len(x) - 1) :
                  /\ x[k - 1] < x[k]
                  /\ PlateauEnd(x, k) < Len(x)
                  /\ x[PlateauEnd(x, k) + 1] < x[k] } }

\* candidates served in index order, whatever their height
FirstByPriority_earliest(x, cands) ==
    CHOOSE p \in cands : \A q \in cands : p <= q

\* the candidate served first: the highest, and of equally high ones the latest
FirstByPriority(x, cands) ==
    CHOOSE p \in cands :
        \A q \in cands : x[q] < x[p] \/ (x[q] = x[p] /\ q <= p)

\* scipy _select_by_peak_distance: candidates are served by decreasing
\* height; a served candidate is kept and removes every candidate closer
\* than distance
RECURSIVE SelectByPeakDistance(_, _, _, _)
SelectByPeakDistance(x, cands, kept, distance) ==
    IF cands = {} THEN kept
    ELSE LET p == FirstByPriority(x, cands)
         IN  SelectByPeakDistance(x,
                 { q \in cands : Abs(q - p) >= distance },
                 kept \cup {p}, distance)

\* the distance argument ignored: every local maximum is a peak
find_peaks_no_distance(x, distance) ==
    LET kept == LocalMaxima(x)
    IN  SelectSeq([i \in 1..Len(x) |-> i], LAMBDA i : i \in kept)

\* scipy.signal.find_peaks(x, distance=distance): positions in ascending order
find_peaks(x, distance) ==
    LET kept == SelectByPeakDistance(x, LocalMaxima(x), {}, distance)
    IN  SelectSeq([i \in 1..Len(x) |-> i], LAMBDA i : i \in kept)

Negated(x) == [k \in 1..Len(x) |-> -(x[k])]

\* seq[:count] for seq[-count:]
LastOf_first(seq, count) ==
    IF Len(seq) <= count THEN seq ELSE SubSeq(seq, 1, count)

\* seq[-count:]
LastOf(seq, count) ==
    IF Len(seq) <= count THEN seq ELSE SubSeq(seq, Len(seq) - count + 1, Len(seq))

\* Python round(): to the nearest multiple of q ticks, a tie to the even one
RoundTo(x, q) ==
    LET lo == (x \div q) * q
        r == x - lo
    IN  IF 2 * r < q THEN lo
        ELSE IF 2 * r > q THEN lo + q
        ELSE IF (lo \div q) % 2 = 0 THEN lo ELSE lo + q

\* -------------------------------------------------------------- retrieval
TrendInsufficient == "Not enough data for trend analysis"
SignalInsufficient == "Not enough data for signal generation"
TrendLabels ==
    {"Strong Uptrend", "Potential Uptrend", "Strong Downtrend",
     "Potential Downtrend", "Neutral"}
SignalLabels == {"Strong Buy", "Buy", "Strong Sell", "Sell", "Hold"}

\* the outcome of a call: a returned value or a raised exception
Returned(v) == [raised |-> "no", value |-> v]
Raised(e, m) == [raised |-> e, msg |-> m]

\* an entry of the indicators dict: a number, or None
Some(v) == [present |-> TRUE, value |-> v]
None == [present |-> FALSE]

\* round(self.df[c].iloc[-1], digits) if c in self.df.columns else None
LatestOrNone(df, c, q) ==
    IF c \in df.columns THEN Some(RoundTo(df.last[c], q)) ELSE None

\* self.df[c].notna().any(): dropna left no NaN cell in a kept row
NotNaAny(df, c) == ~IsEmpty(df)

\* TechAnalyst.get_latest_indicators
get_latest_indicators(df) ==
    IF df = NoFrame \/ IsEmpty(df)
    THEN Raised("ValueError",
                "Data not fetched or empty. Call fetch_and_process_data() first.")
    ELSE LET close_prices == df.Close
             peaks == find_peaks(close_prices, PeakDistance)
             troughs == find_peaks(Negated(close_prices), PeakDistance)
             support_levels ==
                 LastOf([k \in 1..Len(troughs) |-> close_prices[troughs[k]]], LevelsKept)
             resistance_levels ==
                 LastOf([k \in 1..Len(peaks) |-> close_prices[peaks[k]]], LevelsKept)
         IN  Returned(
              [current_price |-> Some(RoundTo(df.last["Close"], Cent)),
               sma_20 |-> LatestOrNone(df, "trend_sma_20", Cent),
               sma_50 |-> LatestOrNone(df, "trend_sma_50", Cent),
               sma_200 |-> LatestOrNone(df, "trend_sma_200", Cent),
               rsi |-> LatestOrNone(df, "momentum_rsi", 1),
               macd |-> LatestOrNone(df, "trend_macd_diff", 1),
               macd_20 |-> LatestOrNone(df, "trend_macd_diff_20", 1),
               obv |-> IF "volume_obv" \in df.columns
                       THEN Some(df.last["volume_obv"]) ELSE None,
               bollinger_hband |-> LatestOrNone(df, "volatility_bbh", Cent),
               support_levels |->
                   [k \in 1..Len(support_levels) |-> RoundTo(support_levels[k], Cent)],
               resistance_levels |->
                   [k \in 1..Len(resistance_levels) |-> RoundTo(resistance_levels[k], Cent)],
               volatility |-> IF NotNaAny(df, "volatility")
                              THEN Some(RoundTo(df.last["volatility"], 1)) ELSE None,
               momentum |-> IF NotNaAny(df, "momentum")
                            THEN Some(RoundTo(df.last["momentum"], Cent)) ELSE None])

\* the guard with `and` for `or`
TrendColumnsMissing_and(columns) ==
    "trend_sma_50" \notin columns /\ "trend_sma_200" \notin columns

\* analyze_trend, line 170: the guard on the columns
TrendColumnsMissing(columns) ==
    "trend_sma_50" \notin columns \/ "trend_sma_200" \notin columns

\* the rules without the fourth one
TrendRules_no_fourth(current_price, sma_50, sma_200) ==
    IF current_price > sma_50 /\ sma_50 > sma_200 THEN "Strong Uptrend"
    ELSE IF current_price > sma_50 /\ sma_50 < sma_200 THEN "Potential Uptrend"
    ELSE IF current_price < sma_50 /\ sma_50 < sma_200 THEN "Strong Downtrend"
    ELSE "Neutral"

\* the rules with inclusive comparisons of the price
TrendRules_inclusive(current_price, sma_50, sma_200) ==
    IF current_price >= sma_50 /\ sma_50 > sma_200 THEN "Strong Uptrend"
    ELSE IF current_price > sma_50 /\ sma_50 < sma_200 THEN "Potential Uptrend"
    ELSE IF current_price <= sma_50 /\ sma_50 < sma_200 THEN "Strong Downtrend"
    ELSE IF current_price < sma_50 /\ sma_50 > sma_200 THEN "Potential Downtrend"
    ELSE "Neutral"

\* analyze_trend, lines 177-186: the ordered rules
TrendRules(current_price, sma_50, sma_200) ==
    IF current_price > sma_50 /\ sma_50 > sma_200 THEN "Strong Uptrend"
    ELSE IF current_price > sma_50 /\ sma_50 < sma_200 THEN "Potential Uptrend"
    ELSE IF current_price < sma_50 /\ sma_50 < sma_200 THEN "Strong Downtrend"
    ELSE IF current_price < sma_50 /\ sma_50 > sma_200 THEN "Potential Downtrend"
    ELSE "Neutral"

\* the statements x = self.df[c].iloc[-1], for the columns c of reads in
\* order: the first that fails decides the exception
RECURSIVE ReadFails(_, _)
ReadFails(df, reads) ==
    IF reads = << >> THEN "no"
    ELSE IF Head(reads) \notin df.columns THEN "KeyError"
    ELSE IF IsEmpty(df) THEN "IndexError"
    ELSE ReadFails(df, Tail(reads))

TrendReads == << "Close", "trend_sma_50", "trend_sma_200" >>

\* TechAnalyst.analyze_trend
\* a guard for self.df is None added in front of the test of the columns
analyze_trend_none_guard(df) ==
    IF df = NoFrame \/ TrendColumnsMissing(df.columns)
    THEN Returned(TrendInsufficient)
    ELSE IF ReadFails(df, TrendReads) # "no"
    THEN Raised(ReadFails(df, TrendReads), "iloc[-1]")
    ELSE Returned(TrendRules(df.last["Close"], df.last["trend_sma_50"],
                             df.last["trend_sma_200"]))

analyze_trend(df) ==
    IF df = NoFrame
    THEN Raised("AttributeError", "'NoneType' object has no attribute 'columns'")
    ELSE IF TrendColumnsMissing(df.columns)
    THEN Returned(TrendInsufficient)
    ELSE IF ReadFails(df, TrendReads) # "no"
    THEN Raised(ReadFails(df, TrendReads), "iloc[-1]")
    ELSE Returned(TrendRules(df.last["Close"], df.last["trend_sma_50"],
                             df.last["trend_sma_200"]))

\* the guard testing the 200-bar average as well
SignalColumnsMissing_long_average(columns) ==
    \/ "momentum_rsi" \notin columns
    \/ "trend_macd_diff" \notin columns
    \/ "volatility_bbl" \notin columns
    \/ "trend_sma_200" \notin columns

\* the guard without the test of the MACD column
SignalColumnsMissing_no_macd(columns) ==
    \/ "momentum_rsi" \notin columns
    \/ "volatility_bbl" \notin columns

\* generate_signal, line 193: the guard on the columns
SignalColumnsMissing(columns) ==
    \/ "momentum_rsi" \notin columns
    \/ "trend_macd_diff" \notin columns
    \/ "volatility_bbl" \notin columns

\* the rules with an inclusive RSI threshold for Buy
SignalRules_inclusive(rsi, macd, current_price, lower_bb, upper_bb) ==
    IF rsi < 30 /\ macd > 0 /\ current_price < lower_bb THEN "Strong Buy"
    ELSE IF rsi <= 40 /\ macd > 0 THEN "Buy"
    ELSE IF rsi > 70 /\ macd < 0 /\ current_price > upper_bb THEN "Strong Sell"
    ELSE IF rsi > 60 /\ macd < 0 THEN "Sell"
    ELSE "Hold"

\* the rules with the general rule tried before the specific one
SignalRules_general_first(rsi, macd, current_price, lower_bb, upper_bb) ==
    IF rsi < 40 /\ macd > 0 THEN "Buy"
    ELSE IF rsi < 30 /\ macd > 0 /\ current_price < lower_bb THEN "Strong Buy"
    ELSE IF rsi > 60 /\ macd < 0 THEN "Sell"
    ELSE IF rsi > 70 /\ macd < 0 /\ current_price > upper_bb THEN "Strong Sell"
    ELSE "Hold"

\* generate_signal, lines 202-211: the ordered rules
SignalRules(rsi, macd, current_price, lower_bb, upper_bb) ==
    IF rsi < 30 /\ macd > 0 /\ current_price < lower_bb THEN "Strong Buy"
    ELSE IF rsi < 40 /\ macd > 0 THEN "Buy"
    ELSE IF rsi > 70 /\ macd < 0 /\ current_price > upper_bb THEN "Strong Sell"
    ELSE IF rsi > 60 /\ macd < 0 THEN "Sell"
    ELSE "Hold"

SignalReads ==
    << "momentum_rsi", "trend_macd_diff", "Close", "volatility_bbl", "volatility_bbh" >>

\* TechAnalyst.generate_signal
generate_signal(df) ==
    IF df = NoFrame
    THEN Raised("AttributeError", "'NoneType' object has no attribute 'columns'")
    ELSE IF SignalColumnsMissing(df.columns)
    THEN Returned(SignalInsufficient)
    ELSE IF ReadFails(df, SignalReads) # "no"
    THEN Raised(ReadFails(df, SignalReads), "iloc[-1]")
    ELSE Returned(SignalRules(df.last["momentum_rsi"], df.last["trend_macd_diff"],
                              df.last["Close"], df.last["volatility_bbl"],
                              df.last["volatility_bbh"]))

\* ------------------------------------------------------------------- state
\* Runs are invocations of TechAnalystTool._run; each owns the analyst of
\* the same number.  Analyst 0 is a TechAnalyst whose methods a client calls
\* directly, in any order.
Runs == 1..NumRuns
Client == 0
Analysts == {Client} \cup Runs

Unset == [unset |-> TRUE]

VARIABLES
    pending,   \* invocations of the tool still to be made
    calls,     \* direct method calls the client may still make
    pc,        \* pc[r]: position of run r inside _run
    history,   \* history[a]: the series the supplier returned to a's last fetch
    df,        \* df[a]: self.df of analyst a
    locals,    \* locals[r]: indicators, trend and signal of run r
    result,    \* result[r]: the dict run r returned
    ret,       \* the client's last call and its outcome
    library,   \* which function of the series the indicator library computes
    observed   \* observed[op]: what op returned to the client since its last fetch

vars == << pending, calls, pc, history, df, locals, result, ret, library, observed >>

RetrievalOps == {"get_latest_indicators", "analyze_trend", "generate_signal"}

NoLocals == [indicators |-> Unset, trend |-> "unset", signal |-> "unset"]

Start ==
    /\ pc = [r \in Runs |-> "idle"]
    /\ history = [a \in Analysts |-> << >>]
    /\ df = [a \in Analysts |-> NoFrame]
    /\ locals = [r \in Runs |-> NoLocals]
    /\ result = [r \in Runs |-> Unset]
    /\ ret = [op |-> "none"]
    /\ library \in Libraries
    /\ observed = [op \in RetrievalOps |-> {}]

\* either an agent invokes the tool once, or a client drives an analyst
Init ==
    /\ Start
    /\ \/ pending = 1 /\ calls = 0
       \/ pending = 0 /\ calls = MaxCalls

\* ------------------------------------------------------ TechAnalystTool._run
\* the error returned together with whatever the run had computed so far
Fail_partial(r, msg) ==
    /\ result' = [result EXCEPT ![r] =
                    [error |-> msg, indicators |-> locals[r].indicators]]
    /\ pc' = [pc EXCEPT ![r] = "done"]

\* except Exception as e: return {"error": str(e)}
Fail(r, msg) ==
    /\ result' = [result EXCEPT ![r] = [error |-> msg]]
    /\ pc' = [pc EXCEPT ![r] = "done"]

\* line 32: analyst = TechAnalyst(ticker, period)
RunCreate(r) ==
    /\ pending > 0
    /\ pc[r] = "idle"
    /\ pending' = pending - 1
    /\ pc' = [pc EXCEPT ![r] = "fetch"]
    /\ df' = [df EXCEPT ![r] = NoFrame]
    /\ UNCHANGED << calls, history, locals, result, ret, library, observed >>

\* the working frame kept in one place shared by every analyst, not per analyst
RunFetchFrom_shared(r, supply) ==
    /\ pc[r] = "fetch"
    /\ \E h \in supply :
         LET out == fetch_and_process_data(h, LibraryOutput(library, h))
         IN  /\ history' = [history EXCEPT ![r] = h]
             /\ IF out.raised = "no"
                THEN /\ df' = [df EXCEPT ![1] = out.df]
                     /\ pc' = [pc EXCEPT ![r] = "check"]
                     /\ UNCHANGED result
                ELSE /\ Fail(r, out.msg)
                     /\ UNCHANGED df
    /\ UNCHANGED << pending, calls, locals, ret, library, observed >>

\* line 33: analyst.fetch_and_process_data(), the supplier returning a
\* series of the set supply
RunFetchFrom(r, supply) ==
    /\ pc[r] = "fetch"
    /\ \E h \in supply :
         LET out == fetch_and_process_data(h, LibraryOutput(library, h))
         IN  /\ history' = [history EXCEPT ![r] = h]
             /\ IF out.raised = "no"
                THEN /\ df' = [df EXCEPT ![r] = out.df]
                     /\ pc' = [pc EXCEPT ![r] = "check"]
                     /\ UNCHANGED result
                ELSE /\ Fail(r, out.msg)
                     /\ UNCHANGED df
    /\ UNCHANGED << pending, calls, locals, ret, library, observed >>

RunFetch(r) == RunFetchFrom(r, Histories)

\* lines 34-35: if analyst.df is None or analyst.df.empty: return {"error": ...}
RunCheck(r) ==
    /\ pc[r] = "check"
    /\ IF df[r] = NoFrame \/ IsEmpty(df[r])
       THEN Fail(r, "Could not retrieve or process data. The dataframe is empty.")
       ELSE /\ pc' = [pc EXCEPT ![r] = "indicators"]
            /\ UNCHANGED result
    /\ UNCHANGED << pending, calls, history, df, locals, ret, library, observed >>

\* the indicators read from the frame of the first analyst, not from its own
RunIndicators_shared(r) ==
    /\ pc[r] = "indicators"
    /\ LET out == get_latest_indicators(df[1])
       IN  IF out.raised = "no"
           THEN /\ locals' = [locals EXCEPT ![r].indicators = out.value]
                /\ pc' = [pc EXCEPT ![r] = "trend"]
                /\ UNCHANGED result
           ELSE /\ Fail(r, out.msg)
                /\ UNCHANGED locals
    /\ UNCHANGED << pending, calls, history, df, ret, library, observed >>

\* line 37: indicators = analyst.get_latest_indicators()
RunIndicators(r) ==
    /\ pc[r] = "indicators"
    /\ LET out == get_latest_indicators(df[r])
       IN  IF out.raised = "no"
           THEN /\ locals' = [locals EXCEPT ![r].indicators = out.value]
                /\ pc' = [pc EXCEPT ![r] = "trend"]
                /\ UNCHANGED result
           ELSE /\ Fail(r, out.msg)
                /\ UNCHANGED locals
    /\ UNCHANGED << pending, calls, history, df, ret, library, observed >>

\* line 38: trend = analyst.analyze_trend()
RunTrend(r) ==
    /\ pc[r] = "trend"
    /\ LET out == analyze_trend(df[r])
       IN  IF out.raised = "no"
           THEN /\ locals' = [locals EXCEPT ![r].trend = out.value]
                /\ pc' = [pc EXCEPT ![r] = "signal"]
                /\ UNCHANGED result
           ELSE /\ Fail(r, out.msg)
                /\ UNCHANGED locals
    /\ UNCHANGED << pending, calls, history, df, ret, library, observed >>

\* line 39: signal = analyst.generate_signal()
RunSignal(r) ==
    /\ pc[r] = "signal"
    /\ LET out == generate_signal(df[r])
       IN  IF out.raised = "no"
           THEN /\ locals' = [locals EXCEPT ![r].signal = out.value]
                /\ pc' = [pc EXCEPT ![r] = "return"]
                /\ UNCHANGED result
           ELSE /\ Fail(r, out.msg)
                /\ UNCHANGED locals
    /\ UNCHANGED << pending, calls, history, df, ret, library, observed >>

\* lines 42-51: the values the reasoning string is formatted from
Reasoning(indicators, trend, signal) ==
    << indicators.current_price, trend, signal, indicators.rsi, indicators.macd,
       indicators.support_levels, indicators.resistance_levels,
       indicators.volatility, indicators.momentum >>

\* lines 42-58: return {"indicators": ..., "trend": ..., "signal": ..., "reasoning": ...}
RunReturn(r) ==
    /\ pc[r] = "return"
    /\ result' = [result EXCEPT ![r] =
                    [indicators |-> locals[r].indicators,
                     trend |-> locals[r].trend,
                     signal |-> locals[r].signal,
                     reasoning |-> Reasoning(locals[r].indicators,
                                             locals[r].trend, locals[r].signal)]]
    /\ pc' = [pc EXCEPT ![r] = "done"]
    /\ UNCHANGED << pending, calls, history, df, locals, ret, library, observed >>

\* lines 31-60 run from start to end with nothing else running: the dict
\* returned for the series h under the library k
RunAlone(h, k) ==
    LET fetched == fetch_and_process_data(h, LibraryOutput(k, h))
    IN  IF fetched.raised # "no" THEN [error |-> fetched.msg]
        ELSE IF IsEmpty(fetched.df)
        THEN [error |-> "Could not retrieve or process data. The dataframe is empty."]
        ELSE LET indicators == get_latest_indicators(fetched.df)
                 trend == analyze_trend(fetched.df)
                 signal == generate_signal(fetched.df)
             IN  IF indicators.raised # "no" THEN [error |-> indicators.msg]
                 ELSE IF trend.raised # "no" THEN [error |-> trend.msg]
                 ELSE IF signal.raised # "no" THEN [error |-> signal.msg]
                 ELSE [indicators |-> indicators.value,
                       trend |-> trend.value,
                       signal |-> signal.value,
                       reasoning |-> Reasoning(indicators.value, trend.value,
                                               signal.value)]

\* ----------------------------------------- TechAnalyst, called directly
\* self.df assigned the copy of the history at line 88, before the indicators
\* are computed on it
CallFetch_early_assign ==
    /\ calls > 0
    /\ calls' = calls - 1
    /\ \E h \in ClientHistories :
         LET out == fetch_and_process_data(h, LibraryOutput(library, h))
             all_rows == [i \in 1..Len(h) |-> i]
         IN  /\ history' = [history EXCEPT ![Client] = h]
             /\ IF out.raised = "no"
                THEN /\ df' = [df EXCEPT ![Client] = out.df]
                     /\ ret' = [op |-> "fetch_and_process_data", out |-> Returned("None")]
                     /\ observed' = [op \in RetrievalOps |-> {}]
                ELSE /\ ret' = [op |-> "fetch_and_process_data", out |-> out]
                     /\ df' = [df EXCEPT ![Client] =
                                 IF Len(h) = 0 THEN @
                                 ELSE Frame(h, BaseColumns, all_rows,
                                            LibraryOutput(library, h))]
                     /\ UNCHANGED observed
    /\ UNCHANGED << pending, pc, locals, result, library >>

\* fetch_and_process_data(): self.df is assigned last, only on success
CallFetch ==
    /\ calls > 0
    /\ calls' = calls - 1
    /\ \E h \in ClientHistories :
         LET out == fetch_and_process_data(h, LibraryOutput(library, h))
         IN  /\ history' = [history EXCEPT ![Client] = h]
             /\ IF out.raised = "no"
                THEN /\ df' = [df EXCEPT ![Client] = out.df]
                     /\ ret' = [op |-> "fetch_and_process_data", out |-> Returned("None")]
                     /\ observed' = [op \in RetrievalOps |-> {}]
                ELSE /\ ret' = [op |-> "fetch_and_process_data", out |-> out]
                     /\ UNCHANGED << df, observed >>
    /\ UNCHANGED << pending, pc, locals, result, library >>

\* the outcome out of the retrieval operation op reaches the client
Observe(op, out) ==
    /\ ret' = [op |-> op, out |-> out]
    /\ observed' = [observed EXCEPT ![op] = @ \cup {out}]

\* close_prices negated in place, through the view of the frame's column
CallIndicators_mutating ==
    /\ calls > 0
    /\ calls' = calls - 1
    /\ Observe("get_latest_indicators", get_latest_indicators(df[Client]))
    /\ df' = [df EXCEPT ![Client] =
                IF @ = NoFrame \/ IsEmpty(@) THEN @
                ELSE [@ EXCEPT !.Close = Negated(@)]]
    /\ UNCHANGED << pending, pc, history, locals, result, library >>

CallIndicators ==
    /\ calls > 0
    /\ calls' = calls - 1
    /\ Observe("get_latest_indicators", get_latest_indicators(df[Client]))
    /\ UNCHANGED << pending, pc, history, df, locals, result, library >>

CallTrend ==
    /\ calls > 0
    /\ calls' = calls - 1
    /\ Observe("analyze_trend", analyze_trend(df[Client]))
    /\ UNCHANGED << pending, pc, history, df, locals, result, library >>

CallSignal ==
    /\ calls > 0
    /\ calls' = calls - 1
    /\ Observe("generate_signal", generate_signal(df[Client]))
    /\ UNCHANGED << pending, pc, history, df, locals, result, library >>

Next ==
    \/ \E r \in Runs : RunCreate(r)
    \/ \E r \in Runs : RunFetch(r)
    \/ \E r \in Runs : RunCheck(r)
    \/ \E r \in Runs : RunIndicators(r)
    \/ \E r \in Runs : RunTrend(r)
    \/ \E r \in Runs : RunSignal(r)
    \/ \E r \in Runs : RunReturn(r)
    \/ CallFetch
    \/ CallIndicators
    \/ CallTrend
    \/ CallSignal

Spec == Init /\ [][Next]_vars

\* -------------------------------------------- several invocations at once
\* Every agent invocation of the tool is in flight together with the others,
\* their steps interleaved in any order; the supplier serves a few series.
FewHistories ==
    { Series("up", "none", 0), Series("up", "none", RsiWindow),
      Series("up", "none", SmaMid), Series("saw", "none", SmaMid + PeakDistance),
      Series("swing", "none", SmaMid + PeakDistance) }

InitRuns ==
    /\ Start
    /\ pending = NumRuns
    /\ calls = 0

NextRuns ==
    \/ \E r \in Runs : RunCreate(r)
    \/ \E r \in Runs : RunFetchFrom(r, FewHistories)
    \/ \E r \in Runs : RunCheck(r)
    \/ \E r \in Runs : RunIndicators(r)
    \/ \E r \in Runs : RunTrend(r)
    \/ \E r \in Runs : RunSignal(r)
    \/ \E r \in Runs : RunReturn(r)

SpecRuns == InitRuns /\ [][NextRuns]_vars

\* ------------------------------------- the classifiers as pure functions
\* A one-row frame with every column, whose last row holds the given values.
GridFrame(price, sma_50, sma_200, rsi, macd, lower_bb, upper_bb) ==
    LET columns == BaseColumns \cup AddedColumns(SmaLong, BaseColumns)
        mid == (lower_bb + upper_bb) \div 2
    IN  [tag |-> "DataFrame",
         columns |-> columns,
         index |-> << SmaLong >>,
         Close |-> << price >>,
         last |-> [c \in columns \cap ReadColumns |->
                    CASE c = "Close" -> price
                      [] c = "trend_sma_50" -> sma_50
                      [] c = "trend_sma_200" -> sma_200
                      [] c = "momentum_rsi" -> rsi
                      [] c = "trend_macd_diff" -> macd
                      [] c = "trend_macd_diff_20" -> macd
                      [] c = "volatility_bbl" -> lower_bb
                      [] c = "volatility_bbh" -> upper_bb
                      [] c \in {"volatility_bbm", "trend_sma_20"} -> mid
                      [] OTHER -> 0]]

GridPrices == {95 * Unit, 100 * Unit, 105 * Unit, 110 * Unit}
GridSma50 == {100 * Unit, 105 * Unit}
GridSma200 == {90 * Unit, 100 * Unit, 105 * Unit, 110 * Unit}
GridRsi == {25, 30, 35, 40, 50, 60, 65, 70, 75}
GridMacd == {-5000, 0, 5000}
\* the lower band relative to the price; the upper band lies 2 * Unit above it
GridLower == {-3 * Unit, -2 * Unit, -Unit, 0, Unit}

GridFrames ==
    { GridFrame(p, a, b, rsi, macd, p + low, p + low + 2 * Unit) :
        p \in GridPrices, a \in GridSma50, b \in GridSma200,
        rsi \in GridRsi, macd \in GridMacd, low \in GridLower }

InitClassify ==
    /\ pc = [r \in Runs |-> "idle"]
    /\ history = [a \in Analysts |-> << >>]
    /\ df \in { [a \in Analysts |-> IF a = Client THEN f ELSE NoFrame] : f \in GridFrames }
    /\ locals = [r \in Runs |-> NoLocals]
    /\ result = [r \in Runs |-> Unset]
    /\ ret = [op |-> "none"]
    /\ library = 1
    /\ observed = [op \in RetrievalOps |-> {}]
    /\ pending = 0
    /\ calls = 1

NextClassify == CallTrend \/ CallSignal

SpecClassify == InitClassify /\ [][NextClassify]_vars

\* the last row of the client's frame
Row == df[Client].last

SignalReturned == ret.op = "generate_signal" /\ ret.out.raised = "no"
TrendReturned == ret.op = "analyze_trend" /\ ret.out.raised = "no"

Rule1 ==
    Row["momentum_rsi"] < 30 /\ Row["trend_macd_diff"] > 0
    /\ Row["Close"] < Row["volatility_bbl"]
Rule2 == Row["momentum_rsi"] < 40 /\ Row["trend_macd_diff"] > 0
Rule3 ==
    Row["momentum_rsi"] > 70 /\ Row["trend_macd_diff"] < 0
    /\ Row["Close"] > Row["volatility_bbh"]
Rule4 == Row["momentum_rsi"] > 60 /\ Row["trend_macd_diff"] < 0

\* C1: with rsi, macd_diff, close and both Bollinger bands present,
\* generate_signal returns the label of the first rule that matches, in the
\* order Strong Buy, Buy, Strong Sell, Sell, and Hold when none matches.
C1_SignalFirstMatch ==
    ret.op = "generate_signal" =>
        /\ ret.out.raised = "no"
        /\ Rule1 => ret.out.value = "Strong Buy"
        /\ ~Rule1 /\ Rule2 => ret.out.value = "Buy"
        /\ ~Rule1 /\ ~Rule2 /\ Rule3 => ret.out.value = "Strong Sell"
        /\ ~Rule1 /\ ~Rule2 /\ ~Rule3 /\ Rule4 => ret.out.value = "Sell"
        /\ ~Rule1 /\ ~Rule2 /\ ~Rule3 /\ ~Rule4 => ret.out.value = "Hold"

C1_Witness ==
    SignalReturned /\ ~Rule3 /\ Rule4 /\ ret.out.value = "Sell"

\* C2: whenever rule 1 holds, rule 2 holds too and the signal is Strong Buy,
\* never Buy; whenever rule 3 holds, rule 4 holds too and the signal is
\* Strong Sell, never Sell.
C2_SpecificRuleFirst ==
    SignalReturned =>
        /\ Rule1 => Rule2 /\ ret.out.value = "Strong Buy" /\ ret.out.value # "Buy"
        /\ Rule3 => Rule4 /\ ret.out.value = "Strong Sell" /\ ret.out.value # "Sell"

C2_Witness ==
    /\ SignalReturned
    /\ Row["momentum_rsi"] = 25 /\ Row["trend_macd_diff"] > 0
    /\ Row["Close"] < Row["volatility_bbl"]
    /\ ret.out.value = "Strong Buy"

Price == Row["Close"]
Sma50 == Row["trend_sma_50"]
Sma200 == Row["trend_sma_200"]

\* C3: with both averages present, analyze_trend returns the label of the
\* first rule that matches, in the order Strong Uptrend, Potential Uptrend,
\* Strong Downtrend, Potential Downtrend, and Neutral when none matches;
\* (110, 105, 100) is a Strong Uptrend and (95, 100, 90) a Potential Downtrend.
C3_TrendFirstMatch ==
    ret.op = "analyze_trend" =>
        LET t1 == Price > Sma50 /\ Sma50 > Sma200
            t2 == Price > Sma50 /\ Sma50 < Sma200
            t3 == Price < Sma50 /\ Sma50 < Sma200
            t4 == Price < Sma50 /\ Sma50 > Sma200
        IN  /\ ret.out.raised = "no"
            /\ t1 => ret.out.value = "Strong Uptrend"
            /\ ~t1 /\ t2 => ret.out.value = "Potential Uptrend"
            /\ ~t1 /\ ~t2 /\ t3 => ret.out.value = "Strong Downtrend"
            /\ ~t1 /\ ~t2 /\ ~t3 /\ t4 => ret.out.value = "Potential Downtrend"
            /\ ~t1 /\ ~t2 /\ ~t3 /\ ~t4 => ret.out.value = "Neutral"
            /\ << Price, Sma50, Sma200 >> = << 110 * Unit, 105 * Unit, 100 * Unit >>
                 => ret.out.value = "Strong Uptrend"
            /\ << Price, Sma50, Sma200 >> = << 95 * Unit, 100 * Unit, 90 * Unit >>
                 => ret.out.value = "Potential Downtrend"

C3_Witness ==
    /\ TrendReturned
    /\ << Price, Sma50, Sma200 >> = << 95 * Unit, 100 * Unit, 90 * Unit >>
    /\ ret.out.value = "Potential Downtrend"

\* C4: whenever price = sma50 or sma50 = sma200, analyze_trend returns
\* Neutral and none of the four uptrend and downtrend labels.
C4_TrendGapIsNeutral ==
    TrendReturned /\ (Price = Sma50 \/ Sma50 = Sma200) =>
        ret.out.value = "Neutral"

C4_Witness ==
    TrendReturned /\ Price < Sma50 /\ Sma50 = Sma200 /\ ret.out.value = "Neutral"

\* ------------------------------------------- the labels for missing data
\* the frames on which analyze_trend or generate_signal has just acted:
\* the client's after the named call, a run's once the local is assigned
TrendOutcomes ==
    (IF ret.op = "analyze_trend" /\ df[Client] # NoFrame
     THEN { << df[Client], ret.out >> } ELSE {})
    \cup { << df[r], Returned(locals[r].trend) >> :
             r \in { q \in Runs : locals[q].trend # "unset" } }

SignalOutcomes ==
    (IF ret.op = "generate_signal" /\ df[Client] # NoFrame
     THEN { << df[Client], ret.out >> } ELSE {})
    \cup { << df[r], Returned(locals[r].signal) >> :
             r \in { q \in Runs : locals[q].signal # "unset" } }

\* C5: analyze_trend returns the insufficient-data label if and only if the
\* sma50 or the sma200 column is absent from the computed frame; when both
\* are present it returns one of the five trend labels.
C5_TrendInsufficientIffAbsent ==
    \A o \in TrendOutcomes :
        LET absent == "trend_sma_50" \notin o[1].columns
                      \/ "trend_sma_200" \notin o[1].columns
        IN  /\ (o[2] = Returned(TrendInsufficient)) <=> absent
            /\ ~absent => o[2].raised = "no" /\ o[2].value \in TrendLabels

C5_Witness ==
    \E o \in TrendOutcomes :
        /\ "trend_sma_50" \in o[1].columns
        /\ "trend_sma_200" \notin o[1].columns
        /\ o[2] = Returned(TrendInsufficient)

\* C6: generate_signal returns the insufficient-data label if and only if
\* the rsi, the macd_diff(12,26,9) or one of the two Bollinger columns is
\* absent; whenever it returns one of the five signal labels, rsi,
\* macd_diff and both bands were present.
C6_SignalInsufficientIffAbsent ==
    \A o \in SignalOutcomes :
        LET absent == \E c \in {"momentum_rsi", "trend_macd_diff",
                                "volatility_bbl", "volatility_bbh"} :
                          c \notin o[1].columns
        IN  /\ (o[2] = Returned(SignalInsufficient)) <=> absent
            /\ (o[2].raised = "no" /\ o[2].value \in SignalLabels)
                 => ~absent /\ ~IsEmpty(o[1])

C6_Witness ==
    \E o \in SignalOutcomes :
        /\ "momentum_rsi" \in o[1].columns
        /\ "volatility_bbl" \in o[1].columns
        /\ "trend_macd_diff" \notin o[1].columns
        /\ o[2] = Returned(SignalInsufficient)

\* --------------------------------------------------- what a run returned
Done(r) == pc[r] = "done"
IsError(r) == "error" \in DOMAIN result[r]
IsSnapshot(r) == "indicators" \in DOMAIN result[r]

\* the entry k of the returned indicators is a number
Has(r, k) == IsSnapshot(r) /\ result[r].indicators[k].present

\* C7: for a series of exactly N bars, the result has sma200 iff N >= 200,
\* sma50 iff N >= 50, rsi14 iff N >= 14, Bollinger, volatility, momentum
\* and sma20 iff N >= 20, and macd_diff(12,26,9) iff N >= 26.
C7_WindowGating ==
    \A r \in Runs :
        Done(r) =>
            LET n == Len(history[r])
            IN  /\ Has(r, "sma_200") <=> n >= 200
                /\ Has(r, "sma_50") <=> n >= 50
                /\ Has(r, "rsi") <=> n >= 14
                /\ Has(r, "bollinger_hband") <=> n >= 20
                /\ Has(r, "volatility") <=> n >= 20
                /\ Has(r, "momentum") <=> n >= 20
                /\ Has(r, "sma_20") <=> n >= 20
                /\ Has(r, "macd") <=> n >= 26

\* C8: a 10-bar series yields a snapshot whose trend and signal are the
\* insufficient-data labels, whose SMA, RSI, MACD and Bollinger entries are
\* absent, and whose current_price is present.
C8_TenBarsSnapshot ==
    \A r \in Runs :
        Done(r) /\ Len(history[r]) = 10 =>
            /\ IsSnapshot(r)
            /\ result[r].trend = TrendInsufficient
            /\ result[r].signal = SignalInsufficient
            /\ \A k \in {"sma_20", "sma_50", "sma_200", "rsi", "macd", "macd_20",
                         "bollinger_hband"} : ~Has(r, k)
            /\ Has(r, "current_price")

\* C9: when dropping the incomplete rows leaves no row, no instrument
\* raises and the run reports no error.
C9_EmptyFrameNeverFaults ==
    /\ (/\ df[Client] # NoFrame
        /\ IsEmpty(df[Client])
        /\ ret.op \in {"get_latest_indicators", "analyze_trend", "generate_signal"})
         => ret.out.raised = "no"
    /\ \A r \in Runs :
         Done(r) /\ df[r] # NoFrame /\ IsEmpty(df[r]) => ~IsError(r)

\* the conditions of the Series Validator of the specification
DatesIncrease(h) == \A i \in 1..(Len(h) - 1) : h[i].Date < h[i + 1].Date
ClosesPositive(h) == \A i \in 1..Len(h) : h[i].Close > 0
VolumesNonNegative(h) == \A i \in 1..Len(h) : h[i].Volume >= 0

\* C10: a series with a duplicated or out-of-order date, with a non-positive
\* close or with a negative volume is rejected before any indicator is
\* computed, and no snapshot is produced for it.
C10_FlawedSeriesRejected ==
    \A r \in Runs :
        (/\ Done(r)
         /\ ~(DatesIncrease(history[r]) /\ ClosesPositive(history[r])
              /\ VolumesNonNegative(history[r])))
          => IsError(r) /\ df[r] = NoFrame

\* C11: an empty input series is rejected. fetch_and_process_data raises for
\* an empty history and assigns no working frame (self.df stays None); the
\* run that fetched it ends at once with the error record, no indicators,
\* trend or signal having been produced.
C11_EmptySeriesRejected ==
    [][ /\ \A r \in Runs :
             (pc[r] = "fetch" /\ pc'[r] # "fetch" /\ history'[r] = << >>) =>
                /\ pc'[r] = "done"
                /\ DOMAIN result'[r] = {"error"}
                /\ df'[r] = NoFrame
                /\ locals'[r] = NoLocals
        /\ (calls' < calls /\ ret'.op = "fetch_and_process_data"
              /\ history'[Client] = << >>) =>
                /\ ret'.out.raised = "ValueError"
                /\ df'[Client] = df[Client] ]_vars

C11_Witness ==
    \E r \in Runs : Done(r) /\ history[r] = << >> /\ IsError(r) /\ df[r] = NoFrame

\* what a finished run returned, as far as the series determines it: the
\* indicators with both level lists, the trend and the signal, or a failure
Outcome(r) ==
    IF IsSnapshot(r)
    THEN [indicators |-> result[r].indicators,
          trend |-> result[r].trend,
          signal |-> result[r].signal]
    ELSE [failed |-> TRUE]

Fetched == { a \in Analysts : df[a] # NoFrame /\ ~IsEmpty(df[a]) }

\* the positions the detector keeps in the frame of analyst a
Peaks(a) == find_peaks(df[a].Close, PeakDistance)
Troughs(a) == find_peaks(Negated(df[a].Close), PeakDistance)

Spaced(positions) ==
    \A k \in 1..(Len(positions) - 1) :
        positions[k + 1] - positions[k] >= PeakDistance

\* some two candidates of the close sequence x are closer than the distance
Crowded(x) ==
    \E p, q \in LocalMaxima(x) : p < q /\ q - p < PeakDistance

\* C13: extremum spacing. In every working frame, a sawtooth with a peak
\* every 10 bars included, no two peaks the detector keeps are fewer than 20
\* positions apart, and no two troughs it keeps are.
C13_ExtremaSpaced ==
    \A a \in Fetched : Spaced(Peaks(a)) /\ Spaced(Troughs(a))

C13_Witness ==
    \E r \in Runs :
        /\ IsSnapshot(r)
        /\ Crowded(df[r].Close)
        /\ Crowded(Negated(df[r].Close))
        /\ Len(Peaks(r)) >= 2
        /\ Len(Troughs(r)) >= 2

\* the closes of x at the last LevelsKept of the positions (at all of them
\* when there are fewer), in ascending position, each rounded to q ticks
LastLevels(x, positions, q) ==
    LET count == IF Len(positions) < LevelsKept THEN Len(positions) ELSE LevelsKept
    IN  [k \in 1..count |-> RoundTo(x[positions[Len(positions) - count + k]], q)]

LevelsAsDetected(indicators, a, q) ==
    /\ indicators.resistance_levels = LastLevels(df[a].Close, Peaks(a), q)
    /\ indicators.support_levels = LastLevels(df[a].Close, Troughs(a), q)
    /\ Len(indicators.resistance_levels) <= LevelsKept
    /\ Len(indicators.support_levels) <= LevelsKept

LevelsReturned(q) ==
    /\ \A r \in Runs :
         (Done(r) /\ r \in Fetched) =>
            /\ IsSnapshot(r)
            /\ LevelsAsDetected(result[r].indicators, r, q)
    /\ (ret.op = "get_latest_indicators" /\ Client \in Fetched) =>
            /\ ret.out.raised = "no"
            /\ LevelsAsDetected(ret.out.value, Client, q)

\* C14 as stated: resistance_levels is exactly the closes of the last 3
\* detected peaks, all of them when fewer than 3 exist, and support_levels
\* the closes of the last 3 detected troughs, each in ascending position and
\* at most 3 long; with no extremum the list is empty and no error is raised.
C14_LevelsAreCloses == LevelsReturned(1)

\* C14, amended: resistance_levels is the closes of the last 3 detected
\* peaks, each rounded to two decimals, all of them when fewer than 3 exist,
\* and support_levels the rounded closes of the last 3 detected troughs,
\* each in ascending position and at most 3 long; with no extremum the list
\* is empty and the run still returns a snapshot.
C14_LastThreeLevels == LevelsReturned(Cent)

C14_Witness ==
    \E r \in Runs :
        /\ IsSnapshot(r)
        /\ Len(Peaks(r)) > LevelsKept
        /\ Len(result[r].indicators.resistance_levels) = LevelsKept
        /\ df[r].Close[Peaks(r)[1]] # df[r].Close[Peaks(r)[Len(Peaks(r))]]
        /\ result[r].indicators.resistance_levels[1] # df[r].Close[Peaks(r)[Len(Peaks(r)) - 2]]

\* a run on a frame without any extremum returns a snapshot with empty lists
C14_WitnessNoExtremum ==
    \E r \in Runs :
        /\ IsSnapshot(r)
        /\ Len(Peaks(r)) = 0 /\ Len(Troughs(r)) = 0
        /\ result[r].indicators.resistance_levels = << >>
        /\ result[r].indicators.support_levels = << >>

\* one pass over the candidates in index order: a candidate is kept unless a
\* candidate kept before it lies closer than the distance
RECURSIVE KeptInIndexOrder(_, _, _)
KeptInIndexOrder(cands, kept, distance) ==
    IF cands = {} THEN kept
    ELSE LET p == CHOOSE c \in cands : \A q \in cands : c <= q
         IN  KeptInIndexOrder({ q \in cands : q - p >= distance },
                              kept \cup {p}, distance)

Positions(seq) == { seq[k] : k \in 1..Len(seq) }

\* C15 as stated: of candidate peaks (troughs) within 20 bars of each other
\* the detector keeps the earliest in index order and suppresses the later
\* ones, whichever is higher (lower): what it keeps is what one pass over
\* the candidates in index order keeps.
C15_EarliestCandidateKept ==
    \A a \in Fetched :
        /\ Positions(Peaks(a)) =
             KeptInIndexOrder(LocalMaxima(df[a].Close), {}, PeakDistance)
        /\ Positions(Troughs(a)) =
             KeptInIndexOrder(LocalMaxima(Negated(df[a].Close)), {}, PeakDistance)

\* the candidates of x other than p that lie closer to p than the distance
Near(x, p) == { q \in LocalMaxima(x) : q # p /\ Abs(q - p) < PeakDistance }

\* the kept positions are chosen among the candidates by height
KeptByHeight(x, kept) ==
    /\ kept \subseteq LocalMaxima(x)
    /\ \A p \in kept : Near(x, p) \cap kept = {}
    /\ \A p \in LocalMaxima(x) :
         /\ (\A q \in Near(x, p) : x[q] < x[p]) => p \in kept
         /\ p \notin kept => \E q \in Near(x, p) \cap kept : x[q] >= x[p]

\* C15, amended: of candidate peaks (troughs) within 20 bars of each other
\* the detector keeps at most one, chosen by height and not by index order:
\* a candidate higher (lower) than every other candidate within 20 bars is
\* kept whether it comes first or last, and every suppressed candidate has a
\* kept candidate at least as high (low) within 20 bars.
C15_HighestCandidateKept ==
    \A a \in Fetched :
        /\ KeptByHeight(df[a].Close, Positions(Peaks(a)))
        /\ KeptByHeight(Negated(df[a].Close), Positions(Troughs(a)))

\* an earlier candidate gives way to a later, higher one within 20 bars
C15_Witness ==
    \E r \in Runs :
        /\ IsSnapshot(r)
        /\ \E p, q \in LocalMaxima(df[r].Close) :
             /\ p < q /\ q - p < PeakDistance
             /\ df[r].Close[p] < df[r].Close[q]
             /\ p \notin Positions(Peaks(r))
             /\ q \in Positions(Peaks(r))

\* the entries of an indicators dict that hold one indicator each
IndicatorEntries(indicators) ==
    DOMAIN indicators \ {"support_levels", "resistance_levels"}

\* the indicators the IndicatorSet is said to hold
IndicatorsNamed ==
    {"sma20", "sma50", "sma200", "macd_diff(12,26,9)", "macd_diff(10,20,9)",
     "rsi14", "bollinger_upper", "bollinger_lower", "bollinger_mid", "obv",
     "volatility20_annualized", "momentum20", "current_price"}

\* C16: every snapshot carries an entry, a number or the absent marker, for
\* each of the thirteen indicators sma20, sma50, sma200, the two macd_diff,
\* rsi14, the upper, lower and middle Bollinger band, obv, volatility,
\* momentum and current_price: thirteen entries besides the two level lists.
C16_ThirteenIndicators ==
    /\ \A r \in Runs :
         IsSnapshot(r) =>
            Cardinality(IndicatorEntries(result[r].indicators))
                = Cardinality(IndicatorsNamed)
    /\ (ret.op = "get_latest_indicators" /\ ret.out.raised = "no") =>
            Cardinality(IndicatorEntries(ret.out.value))
                = Cardinality(IndicatorsNamed)

\* run r is between its fetch and its return
InFlight(r) == pc[r] \in {"check", "indicators", "trend", "signal", "return"}

\* C17: concurrent invocations are independent. In every interleaving of the
\* runs, a step of one run leaves the series, the working frame, the locals
\* and the result of every other run as they were, and a run that finishes
\* returns what it would return running alone on its series.
C17_RunsIndependent ==
    [][ \A r \in Runs :
          /\ pc'[r] = pc[r] =>
                /\ history'[r] = history[r]
                /\ df'[r] = df[r]
                /\ locals'[r] = locals[r]
                /\ result'[r] = result[r]
          /\ (pc[r] # "done" /\ pc'[r] = "done") =>
                result'[r] = RunAlone(history'[r], library) ]_vars

\* one run has returned a snapshot while another, on a different series, is
\* between its fetch and its return
C17_Witness ==
    \E r1, r2 \in Runs :
        /\ r1 # r2
        /\ Done(r1) /\ IsSnapshot(r1)
        /\ result[r1] = RunAlone(history[r1], library)
        /\ InFlight(r2) /\ r2 \in Fetched
        /\ history[r1] # history[r2]

\* a retrieval operation has just returned to the client
Retrieved == calls' < calls /\ ret'.op \in RetrievalOps

\* a run has just made one of its three retrieval calls
RunRetrieved(r) ==
    pc[r] \in {"indicators", "trend", "signal"} /\ pc'[r] # pc[r]

\* C18: get_latest_indicators, analyze_trend and generate_signal leave the
\* working frame unchanged, so after a fetch each of them returns the same
\* value on every call, whatever calls were made in between.
C18_RetrievalKeepsFrame ==
    [][ /\ Retrieved =>
             /\ df' = df
             /\ \A op \in RetrievalOps : Cardinality(observed'[op]) <= 1
        /\ \A r \in Runs : RunRetrieved(r) => df' = df ]_vars

\* the client has fetched a frame and then called one operation twice
C18_Witness ==
    /\ Client \in Fetched
    /\ calls + 3 <= MaxCalls
    /\ ret.op \in RetrievalOps
    /\ observed[ret.op] = {ret.out}
    /\ ret.out.raised = "no"
    /\ \A op \in RetrievalOps \ {ret.op} : observed[op] = {}

SnapshotKeys == {"indicators", "trend", "signal", "reasoning"}

\* the result of run r holds all four entries, each of them computed
CompleteSnapshot(r) ==
    /\ DOMAIN result[r] = SnapshotKeys
    /\ result[r].indicators # Unset
    /\ result[r].trend \in TrendLabels \cup {TrendInsufficient}
    /\ result[r].signal \in SignalLabels \cup {SignalInsufficient}

\* C19: no partial snapshot is ever returned. A run always ends by
\* returning a dict, never by raising, and the dict either holds only an
\* "error" entry or holds indicators, trend, signal and reasoning together;
\* a run that ends at a failed stage returns the error-only dict.
C19_ErrorOrCompleteSnapshot ==
    \A r \in Runs :
        /\ Done(r) => (DOMAIN result[r] = {"error"} \/ CompleteSnapshot(r))
        /\ (Done(r) /\ locals[r].signal = "unset") => DOMAIN result[r] = {"error"}
        /\ ~Done(r) => result[r] = Unset

\* a run that fetched a frame and failed at a later stage
C19_Witness ==
    \E r \in Runs :
        /\ Done(r)
        /\ df[r] # NoFrame
        /\ DOMAIN result[r] = {"error"}

\* the close column of the series as the supplier returned it
Closes(h) == [k \in 1..Len(h) |-> h[k].Close]

\* C20: the extremum detector searches the whole close sequence of the input
\* series: the resistance (support) levels of a snapshot are the last up to
\* 3 spaced local maxima (minima) of the full input closes, however many
\* leading rows the indicator pipeline dropped for warm-up.
C20_LevelsOfWholeSeries ==
    \A r \in Runs :
        IsSnapshot(r) =>
            LET x == Closes(history[r])
            IN  /\ result[r].indicators.resistance_levels
                     = LastLevels(x, find_peaks(x, PeakDistance), Cent)
                /\ result[r].indicators.support_levels
                     = LastLevels(x, find_peaks(Negated(x), PeakDistance), Cent)

\* the rows start..n, the tail of an n-row series left when only leading
\* rows are removed
TailRows(n, length) == [k \in 1..length |-> n - length + k]

\* C21: whenever a snapshot is produced (every field of every series here is
\* a finite number), the row dropping has removed only leading warm-up rows,
\* so the last row of the working frame is the last bar of the input, and
\* current_price and the price analyze_trend and generate_signal read all
\* equal the latest close of the input series.
C21_LatestCloseIsLastBar ==
    \A r \in Runs :
        IsSnapshot(r) =>
            LET n == Len(history[r])
            IN  /\ df[r].index = TailRows(n, Len(df[r].index))
                /\ df[r].last["Close"] = history[r][n].Close
                /\ result[r].indicators.current_price = Some(history[r][n].Close)

\* C22: in every record with indicators that a run returns, labels and
\* indicators agree on availability: trend is one of the five trend labels
\* iff sma_50 and sma_200 are both numbers, signal is one of the five signal
\* labels iff rsi, macd and bollinger_hband are all numbers, and a label
\* that is not one of the five is the not-enough-data label.
C22_LabelsAgreeWithIndicators ==
    \A r \in Runs :
        IsSnapshot(r) =>
            LET indicators == result[r].indicators
            IN  /\ result[r].trend \in TrendLabels
                     <=> (indicators.sma_50.present /\ indicators.sma_200.present)
                /\ result[r].trend \notin TrendLabels
                     => result[r].trend = TrendInsufficient
                /\ result[r].signal \in SignalLabels
                     <=> /\ indicators.rsi.present
                         /\ indicators.macd.present
                         /\ indicators.bollinger_hband.present
                /\ result[r].signal \notin SignalLabels
                     => result[r].signal = SignalInsufficient

\* a snapshot without the long average: no trend label, but a signal label
C22_Witness ==
    \E r \in Runs :
        /\ IsSnapshot(r)
        /\ result[r].indicators.sma_50.present
        /\ ~result[r].indicators.sma_200.present
        /\ result[r].trend = TrendInsufficient
        /\ result[r].signal \in SignalLabels

\* a snapshot with both averages and both labels
C22_WitnessBothLabels ==
    \E r \in Runs :
        /\ IsSnapshot(r)
        /\ result[r].indicators.sma_200.present
        /\ result[r].trend \in TrendLabels
        /\ result[r].signal \in SignalLabels

\* the client's call of fetch_and_process_data has just ended
Fetching == calls' < calls /\ ret'.op = "fetch_and_process_data"

\* the frame f holds every column the computation adds for the series h
FullyComputed(f, h) ==
    /\ f # NoFrame
    /\ f.columns = BaseColumns \cup AddedColumns(Len(h), BaseColumns)

\* C23: a fetch_and_process_data that fails, on an empty history or on an
\* exception while the indicators are computed, raises ValueError and
\* leaves self.df exactly as it was, None on a fresh analyst and the
\* previous frame on a reused one; one that succeeds leaves a frame with
\* every computed column, so no partially computed frame is ever observable.
C23_FailedFetchKeepsFrame ==
    [][ /\ Fetching =>
             IF ret'.out.raised = "no"
             THEN FullyComputed(df'[Client], history'[Client])
             ELSE /\ ret'.out.raised = "ValueError"
                  /\ df'[Client] = df[Client]
        /\ \A r \in Runs :
             (pc[r] = "fetch" /\ pc'[r] # "fetch") =>
                IF pc'[r] = "done"
                THEN df'[r] = df[r] /\ DOMAIN result'[r] = {"error"}
                ELSE FullyComputed(df'[r], history'[r]) ]_vars

\* a reused analyst keeps its frame after a fetch that failed on a series
\* that is not empty
C23_Witness ==
    /\ Client \in Fetched
    /\ ret.op = "fetch_and_process_data"
    /\ ret.out.raised = "ValueError"
    /\ Len(history[Client]) > 0
    /\ df[Client].index[Len(df[Client].index)] # Len(history[Client])

\* C24: on an analyst whose fetch_and_process_data has not yet completed
\* successfully (self.df is None) no retrieval operation returns a value:
\* get_latest_indicators raises the ValueError asking for a fetch first, and
\* analyze_trend and generate_signal fail too, returning no label.
C24_NoRetrievalBeforeFetch ==
    (ret.op \in RetrievalOps /\ df[Client] = NoFrame) =>
        /\ ret.out.raised # "no"
        /\ ret.op = "get_latest_indicators" =>
             ret.out = Raised("ValueError",
                 "Data not fetched or empty. Call fetch_and_process_data() first.")

\* analyze_trend has failed on an analyst whose only fetch failed
C24_Witness ==
    /\ df[Client] = NoFrame
    /\ Len(history[Client]) > 0
    /\ ret.op = "analyze_trend"
    /\ ret.out.raised = "AttributeError"
    /\ observed["generate_signal"] # {}
    /\ \A out \in observed["generate_signal"] : out.raised = "AttributeError"

====
